---- MODULE Spec2Model ----
(***************************************************************************)
(* A model of the text2num Dutch number-word segmenter and ordinal         *)
(* converter (src/text_to_num/lang/dutch.py) and of the post-processing    *)
(* passes (src/text_to_num/lang/postprocess.py): decimal merger, currency, *)
(* date and time formatters.                                               *)
(*                                                                         *)
(* A Python str is modelled as a sequence of one-character strings, so     *)
(* that prefixes, suffixes, slices and regular-expression matches are      *)
(* computed character by character as the code computes them.  Tokens are  *)
(* lower-case: str.lower() (dutch.py:155,157,194) leaves them as they are. *)
(***************************************************************************)
EXTENDS Integers, Sequences, FiniteSets, TLC

VARIABLES
    pc,             \* position of the running operation
    word,           \* split_number_word: the argument
    text,           \* split_number_word: the text still to be segmented
    invalid_word,   \* split_number_word: buffered unmatched characters
    result,         \* split_number_word: the output built so far
    iters,          \* split_number_word: iterations of the while loop so far
    idx,            \* merge_decimals: position of the for loop in tokens
    out_tokens,     \* merge_decimals: the output list built so far
    in_decimal,     \* merge_decimals: whether a decimal is being collected
    decimal,        \* merge_decimals: the decimal being collected
    arg,            \* the arguments of the operation under way
    ret             \* what a single call returned

segVars == <<word, text, invalid_word, result, iters>>
mergeVars == <<idx, out_tokens, in_decimal, decimal>>
vars == <<pc, word, text, invalid_word, result, iters,
          idx, out_tokens, in_decimal, decimal, arg, ret>>

-----------------------------------------------------------------------------
(* Python str and list primitives *)

\* s[n:]
Drop(s, n) == SubSeq(s, n + 1, Len(s))

\* s[:-n]
DropLast(s, n) == SubSeq(s, 1, Len(s) - n)

\* s[i-1:].startswith(w), for a 1-based position i
StartsWithAt(s, i, w) ==
    /\ i >= 1
    /\ i + Len(w) - 1 <= Len(s)
    /\ \A k \in 1..Len(w) : s[i + k - 1] = w[k]

\* s.startswith(w)
StartsWith(s, w) == StartsWithAt(s, 1, w)

\* s.endswith(w)
EndsWith(s, w) == Len(w) <= Len(s) /\ StartsWithAt(s, Len(s) - Len(w) + 1, w)

\* the elements of a sequence, as a set
Range(s) == {s[k] : k \in DOMAIN s}

\* "".join(parts)
Join(parts) ==
    LET f[k \in 0..Len(parts)] == IF k = 0 THEN <<>> ELSE f[k - 1] \o parts[k]
    IN  f[Len(parts)]

\* s.split(): the maximal runs of non-whitespace characters
SplitWS(s) ==
    LET f[k \in 0..Len(s)] ==
            \* <<pieces closed so far, piece being read>>
            IF k = 0 THEN <<<<>>, <<>>>>
            ELSE LET p == f[k - 1]
                 IN  IF s[k] = " "
                     THEN <<IF p[2] = <<>> THEN p[1] ELSE Append(p[1], p[2]), <<>>>>
                     ELSE <<p[1], Append(p[2], s[k])>>
        e == f[Len(s)]
    IN  IF e[2] = <<>> THEN e[1] ELSE Append(e[1], e[2])

SP == <<" ">>

-----------------------------------------------------------------------------
(* The Dutch lexicon.  Each table is the sequence of its dict's keys in    *)
(* insertion order; the numeric values are read by none of the operations  *)
(* modelled here.                                                          *)

MULTIPLIERS ==
    << <<"d","u","i","z","e","n","d">>,
       <<"m","i","l","j","o","e","n">>,
       <<"m","i","l","j","a","r","d">>,
       <<"b","i","l","j","o","e","n">>,
       <<"b","i","l","j","a","r","d">>,
       <<"t","r","i","l","j","o","e","n">>,
       <<"t","r","i","l","j","a","r","d">> >>

UNITS ==
    << <<"é","é","n">>,
       <<"t","w","e","e">>,
       <<"d","r","i","e">>,
       <<"v","i","e","r">>,
       <<"v","i","j","f">>,
       <<"z","e","s">>,
       <<"z","e","v","e","n">>,
       <<"a","c","h","t">>,
       <<"n","e","g","e","n">>,
       <<"e","e","n">> >>

\* STENS as first built: the words for 10..19
STENS_SINGLE ==
    << <<"t","i","e","n">>,
       <<"e","l","f">>,
       <<"t","w","a","a","l","f">>,
       <<"d","e","r","t","i","e","n">>,
       <<"v","e","e","r","t","i","e","n">>,
       <<"v","i","j","f","t","i","e","n">>,
       <<"z","e","s","t","i","e","n">>,
       <<"z","e","v","e","n","t","i","e","n">>,
       <<"a","c","h","t","t","i","e","n">>,
       <<"n","e","g","e","n","t","i","e","n">> >>

MTENS ==
    << <<"t","w","i","n","t","i","g">>,
       <<"d","e","r","t","i","g">>,
       <<"v","e","e","r","t","i","g">>,
       <<"v","i","j","f","t","i","g">>,
       <<"z","e","s","t","i","g">>,
       <<"z","e","v","e","n","t","i","g">>,
       <<"t","a","c","h","t","i","g">>,
       <<"n","e","g","e","n","t","i","g">> >>

\* the keys one pass of the inner loop adds for unit w1 and ten multiple w10
FusedTensUnit(w1, w10) ==
    IF w1[Len(w1)] = "e"
    THEN << w1 \o <<"e","n">> \o w10, w1 \o <<"ë","n">> \o w10 >>
    ELSE << w1 \o <<"e","n">> \o w10 >>

\* STENS after the loop: for w10 in MTENS, for w1 in UNITS
STENS ==
    LET n == Len(UNITS)
        f[k \in 0..(Len(MTENS) * n)] ==
            IF k = 0 THEN STENS_SINGLE
            ELSE f[k - 1] \o FusedTensUnit(UNITS[((k - 1) % n) + 1],
                                           MTENS[((k - 1) \div n) + 1])
    IN  f[Len(MTENS) * n]

HUNDRED == << <<"h","o","n","d","e","r","d">> >>

NUMBERS == MULTIPLIERS \o UNITS \o STENS \o MTENS \o HUNDRED

AND == <<"e","n">>

NUL == <<"n","u","l">>

\* the longest key of a table
MaxLen(ws) == CHOOSE n \in {Len(ws[k]) : k \in DOMAIN ws} :
                  \A k \in DOMAIN ws : Len(ws[k]) <= n

\* sorted(ws, key=len): stable, shortest first
SortedByLen(ws) ==
    LET f[L \in 0..MaxLen(ws)] ==
            IF L = 0 THEN <<>>
            ELSE f[L - 1] \o SelectSeq(ws, LAMBDA x : Len(x) = L)
    IN  f[MaxLen(ws)]

\* sorted(ws, key=len, reverse=True): stable, longest first
SortedByLenReverse(ws) ==
    LET m == MaxLen(ws)
        f[L \in 1..(m + 1)] ==
            IF L = m + 1 THEN <<>>
            ELSE f[L + 1] \o SelectSeq(ws, LAMBDA x : Len(x) = L)
    IN  f[1]

\* the vocabulary sorted shortest first: the sort without reverse=True
ALL_WORDS_SORTED_Forward == SortedByLen(<<AND, NUL>> \o NUMBERS)

ALL_WORDS_SORTED_REVERSE == SortedByLenReverse(<<AND, NUL>> \o NUMBERS)

\* the keys of NUMBER_DICT_NL
NUMBER_DICT_NL == {NUL} \cup Range(NUMBERS)

\* ORDINALS_FIXED_NL as the class body leaves it: the second comprehension
\* replaces the first, then four keys are set; cardinal word -> ordinal word
ORDINALS_FIXED_NL ==
    LET fixed == (NUL :> <<"n","u","l","d","e">>)
              @@ (<<"é","é","n">> :> <<"e","e","r","s","t","e">>)
              @@ (<<"d","r","i","e">> :> <<"d","e","r","d","e">>)
              @@ (<<"a","c","h","t">> :> <<"a","c","h","t","s","t","e">>)
    IN  [w \in Range(STENS) \cup DOMAIN fixed |->
            IF w \in DOMAIN fixed THEN fixed[w] ELSE w \o <<"d","e">>]

-----------------------------------------------------------------------------
(* Dutch.split_number_word *)

\* position in ALL_WORDS_SORTED_REVERSE of the first sw with
\* text.startswith(sw); 0 when the for loop ends without a break
FirstMatch(t) ==
    LET hits == {k \in DOMAIN ALL_WORDS_SORTED_REVERSE :
                    StartsWith(t, ALL_WORDS_SORTED_REVERSE[k])}
    IN  IF hits = {} THEN 0
        ELSE CHOOSE k \in hits : \A j \in hits : k <= j

\* the alternatives of LARGE_ORDINAL_SUFFIXES_NL, in the order the regex
\* tries them
LARGE_ORDINAL_SUFFIXES_NL ==
    << <<"s","t","e","r">>, <<"s","t","e","s">>,
       <<"s","t","e","n">>, <<"s","t","e">> >>

\* re.search(r"^(ster|stes|sten|ste)(\s|$)", t): the match's end (span()[1]),
\* 0 for no match
OrdMatchEnd(t) ==
    LET ends == [k \in DOMAIN LARGE_ORDINAL_SUFFIXES_NL |->
                    LET s == LARGE_ORDINAL_SUFFIXES_NL[k]
                    IN  IF ~StartsWith(t, s) THEN 0
                        ELSE IF Len(t) > Len(s) /\ t[Len(s) + 1] = " "
                             THEN Len(s) + 1
                        ELSE IF Len(t) = Len(s) THEN Len(s)
                        ELSE 0]
        hits == {k \in DOMAIN ends : ends[k] # 0}
    IN  IF hits = {} THEN 0
        ELSE ends[CHOOSE k \in hits : \A j \in hits : k <= j]

\* the matched word is not cut off the text
KeepText(t, n) == t

\* text = text[len(sw):]
Consume(t, n) == Drop(t, n)

\* result += invalid_word + " ", when invalid_word is not empty
Flush(res, inv) == IF Len(inv) > 0 THEN res \o inv \o SP ELSE res

\* one iteration of the while loop
SplitIter(t, inv, res) ==
    LET k == FirstMatch(t)
    IN  IF k # 0
        THEN LET sw == ALL_WORDS_SORTED_REVERSE[k]
             IN  [text |-> Consume(t, Len(sw)),
                  invalid_word |-> <<>>,
                  result |-> Flush(res, inv) \o sw \o SP]
        ELSE LET end == IF Len(res) > 3 /\ StartsWith(t, <<"s","t","e">>)
                        THEN OrdMatchEnd(t) ELSE 0
             IN  IF end # 0
                 THEN [text |-> Drop(t, end), invalid_word |-> <<>>,
                       result |-> res]
                 ELSE IF t[1] # " "
                 THEN [text |-> Drop(t, 1),
                       invalid_word |-> Append(inv, t[1]),
                       result |-> res]
                 ELSE [text |-> Drop(t, 1), invalid_word |-> <<>>,
                       result |-> Flush(res, inv)]

RECURSIVE SplitRun(_, _, _)
\* the while loop run to its end, and the return
SplitRun(t, inv, res) ==
    IF Len(t) = 0 THEN Flush(res, inv)
    ELSE LET s == SplitIter(t, inv, res)
         IN  SplitRun(s.text, s.invalid_word, s.result)

split_number_word(w) == SplitRun(w, <<>>, <<>>)

-----------------------------------------------------------------------------
(* Dutch.ord2card *)

\* Optional[str]: None, or the one value returned
None == <<>>

Some(v) == <<v>>

\* if word_base in ORDINALS_FIXED_NL: return ORDINALS_FIXED_NL[word_base]
FixedLookup(wb) ==
    IF wb \in DOMAIN ORDINALS_FIXED_NL THEN Some(ORDINALS_FIXED_NL[wb]) ELSE None

\* the "s" left by the ending is kept on the stem
KeepLinkingS(b) == b

\* if word_base.endswith("s"): word_base = word_base[:-1]
StripLinkingS(b) == IF EndsWith(b, <<"s">>) THEN DropLast(b, 1) ELSE b

ord2card(w) ==
    IF Len(w) > 4
    THEN LET \* None is modelled by the empty string: both are falsy, and a
             \* word of more than 4 characters never yields an empty base
             word_base ==
                 IF \/ EndsWith(w, <<"t","e","r">>)
                    \/ EndsWith(w, <<"t","e","s">>)
                    \/ EndsWith(w, <<"t","e","n">>)
                 THEN DropLast(w, 1)
                 ELSE IF EndsWith(w, <<"t","e">>) THEN w
                 ELSE <<>>
         IN  IF word_base # <<>>
             THEN IF FixedLookup(word_base) # None
                  THEN FixedLookup(word_base)
                  ELSE LET stem == StripLinkingS(DropLast(word_base, 2))
                       IN  IF stem \in NUMBER_DICT_NL THEN Some(stem)
                           ELSE IF \E n \in NUMBER_DICT_NL : EndsWith(stem, n)
                           THEN LET word_base_split ==
                                        SplitWS(split_number_word(stem))
                                    wbs_length == Len(word_base_split)
                                IN  IF /\ wbs_length > 0
                                       /\ word_base_split[wbs_length]
                                              \in NUMBER_DICT_NL
                                    THEN Some(Join(word_base_split))
                                    ELSE None
                           ELSE None
             ELSE None
    ELSE None

-----------------------------------------------------------------------------
(* Characters and regular-expression primitives, postprocess.py *)

Digits == {"0","1","2","3","4","5","6","7","8","9"}

\* the letters of the texts modelled here
Letters ==
    {"a","b","c","d","e","f","g","h","i","j","k","l","m","n","o","p","q",
     "r","s","t","u","v","w","x","y","z","é","ë","ó","H"}

\* \w
IsWordChar(c) == c \in Digits \cup Letters

\* the character at 1-based position i, "" outside the string
At(s, i) == IF i \in 1..Len(s) THEN s[i] ELSE ""

\* \b just before position i
WordBoundaryAt(s, i) == IsWordChar(At(s, i - 1)) # IsWordChar(At(s, i))

\* \d{n} at position i
DigitsAt(s, i, n) == \A k \in i..(i + n - 1) : At(s, k) \in Digits

\* the length of the longest run of digits that starts at position i
DigitRun(s, i) ==
    CHOOSE n \in 0..Len(s) : DigitsAt(s, i, n) /\ At(s, i + n) \notin Digits

\* the length of the longest run of whitespace that starts at position i
SpaceRun(s, i) ==
    CHOOSE n \in 0..Len(s) :
        /\ \A k \in i..(i + n - 1) : At(s, k) = " "
        /\ At(s, i + n) # " "

\* the concatenation of f[x] for the elements x of s, in order
FlatMap(f, s) ==
    LET g[k \in 0..Len(s)] == IF k = 0 THEN <<>> ELSE g[k - 1] \o f[s[k]]
    IN  g[Len(s)]

\* str(n) for an int n >= 0
DigitChars == <<"0","1","2","3","4","5","6","7","8","9">>

RECURSIVE Str(_)
Str(n) ==
    IF n < 10 THEN <<DigitChars[n + 1]>>
    ELSE Str(n \div 10) \o <<DigitChars[(n % 10) + 1]>>

\* s.zfill(2) for a string without a sign
ZFill2(s) ==
    IF Len(s) >= 2 THEN s
    ELSE IF Len(s) = 1 THEN <<"0">> \o s
    ELSE <<"0","0">>

\* a match object: the span [start, end) and the groups; NoMatch for None
NoMatch == [start |-> 0, end |-> 0]

\* pattern.finditer(t): the matches of a leftmost scan, matchAt[i] being the
\* match that starts at position i (every pattern here matches at least one
\* character)
FindIter(matchAt, t) ==
    LET f[i \in 1..(Len(t) + 1)] ==
            IF i > Len(t) THEN <<>>
            ELSE LET m == matchAt[i]
                 IN  IF m.start # 0 THEN <<m>> \o f[m.end] ELSE f[i + 1]
    IN  f[1]

\* pattern.sub(repl, t): the matches ms of the scan replaced by what repl
\* gave for each, repls
Replace(t, ms, repls) ==
    LET f[k \in 0..Len(ms)] ==
            IF k = 0 THEN <<>>
            ELSE f[k - 1]
                 \o SubSeq(t, IF k = 1 THEN 1 ELSE ms[k - 1].end, ms[k].start - 1)
                 \o repls[k]
        last == IF Len(ms) = 0 THEN 1 ELSE ms[Len(ms)].end
    IN  f[Len(ms)] \o SubSeq(t, last, Len(t))

-----------------------------------------------------------------------------
(* DecimalMerger *)

\* re.search(self.dec_ptrn, token), dec_ptrn = \b\d+\<sym>\d{1,max_group}\b
DecPtrnSearch(token, sym, max_group) ==
    \E a \in 1..Len(token), n \in 1..Len(token), m \in 1..max_group :
        /\ WordBoundaryAt(token, a)
        /\ DigitsAt(token, a, n)
        /\ At(token, a + n) = sym
        /\ DigitsAt(token, a + n + 1, m)
        /\ WordBoundaryAt(token, a + n + 1 + m)

\* re.search(self.grp_ptrn, token), grp_ptrn = \b\d{1,max_group}\b
GrpPtrnSearch(token, max_group) ==
    \E a \in 1..Len(token), m \in 1..max_group :
        /\ WordBoundaryAt(token, a)
        /\ DigitsAt(token, a, m)
        /\ WordBoundaryAt(token, a + m)

\* decimal.split(sym)[1]: what stands between the first sym and the next
SplitSecond(d, sym) ==
    LET first == CHOOSE i \in 1..Len(d) :
                     d[i] = sym /\ \A j \in 1..(i - 1) : d[j] # sym
        rest == Drop(d, first)
        stop == IF \E i \in 1..Len(rest) : rest[i] = sym
                THEN CHOOSE i \in 1..Len(rest) :
                         rest[i] = sym /\ \A j \in 1..(i - 1) : rest[j] # sym
                ELSE Len(rest) + 1
    IN  SubSeq(rest, 1, stop - 1)

\* the body of the for loop, for one token
MergeStep(token, c, o, ind, dec) ==
    IF DecPtrnSearch(token, c.decimal_sym, c.max_group)
    THEN [out_tokens |-> IF ind THEN Append(o, dec) ELSE o,
          in_decimal |-> TRUE,
          decimal |-> token]
    ELSE IF ind
    THEN IF /\ GrpPtrnSearch(token, c.max_group)
            /\ Len(token) + Len(SplitSecond(dec, c.decimal_sym)) <= c.max_decimal
         THEN [out_tokens |-> o, in_decimal |-> TRUE, decimal |-> dec \o token]
         ELSE [out_tokens |-> o \o <<dec, token>>, in_decimal |-> FALSE,
               decimal |-> dec]
    ELSE [out_tokens |-> Append(o, token), in_decimal |-> ind, decimal |-> dec]

\* if in_decimal: out_tokens.append(decimal); return out_tokens
MergeEnd(o, ind, dec) == IF ind THEN Append(o, dec) ELSE o

RECURSIVE MergeRun(_, _, _, _, _, _)
\* the for loop from token k on, and the return
MergeRun(ts, k, c, o, ind, dec) ==
    IF k > Len(ts) THEN MergeEnd(o, ind, dec)
    ELSE LET s == MergeStep(ts[k], c, o, ind, dec)
         IN  MergeRun(ts, k + 1, c, s.out_tokens, s.in_decimal, s.decimal)

merge_decimals(ts, c) == MergeRun(ts, 1, c, <<>>, FALSE, <<>>)

-----------------------------------------------------------------------------
(* CurrencyFormatter.  The pattern is compiled with re.IGNORECASE; the      *)
(* texts here are lower-case.                                               *)

\* a literal followed by optional characters, as in dólare?s?: the end of
\* its greedy match at position i, 0 when the literal is not there
LitOptEnd(t, i, lit, opts) ==
    IF ~StartsWithAt(t, i, lit) THEN 0
    ELSE LET f[k \in 0..Len(opts)] ==
                 IF k = 0 THEN i + Len(lit)
                 ELSE IF At(t, f[k - 1]) = opts[k] THEN f[k - 1] + 1
                 ELSE f[k - 1]
         IN  f[Len(opts)]

\* the end of the first alternative of alts (records [lit, opts]) to match
\* at position i, 0 when none does
FirstAltEnd(t, i, alts) ==
    LET hits == {k \in DOMAIN alts : LitOptEnd(t, i, alts[k].lit, alts[k].opts) # 0}
    IN  IF hits = {} THEN 0
        ELSE LET k == CHOOSE k \in hits : \A j \in hits : k <= j
             IN  LitOptEnd(t, i, alts[k].lit, alts[k].opts)

\* self.curr_whole: euros? dollars? dólare?s? dolare?s? con
curr_whole ==
    << [lit |-> <<"e","u","r","o">>, opts |-> <<"s">>],
       [lit |-> <<"d","o","l","l","a","r">>, opts |-> <<"s">>],
       [lit |-> <<"d","ó","l","a","r">>, opts |-> <<"e","s">>],
       [lit |-> <<"d","o","l","a","r">>, opts |-> <<"e","s">>],
       [lit |-> <<"c","o","n">>, opts |-> <<>>] >>

\* self.curr_fraction, each with the space the pattern puts before it:
\* céntimos? centimos? centavos?
curr_fraction ==
    << [lit |-> <<" ","c","é","n","t","i","m","o">>, opts |-> <<"s">>],
       [lit |-> <<" ","c","e","n","t","i","m","o">>, opts |-> <<"s">>],
       [lit |-> <<" ","c","e","n","t","a","v","o">>, opts |-> <<"s">>] >>

\* ( con| y con| y)
CONJ_ALT ==
    << [lit |-> <<" ","c","o","n">>, opts |-> <<>>],
       [lit |-> <<" ","y"," ","c","o","n">>, opts |-> <<>>],
       [lit |-> <<" ","y">>, opts |-> <<>>] >>

\* (\d+|un[oa]?) at position i: the end of the match, 0 for none.  What
\* follows is a space, so \d+ and [oa]? cannot give a character back.
AmountEnd(t, i) ==
    IF DigitRun(t, i) > 0 THEN i + DigitRun(t, i)
    ELSE IF StartsWithAt(t, i, <<"u","n">>)
         THEN IF At(t, i + 2) \in {"o", "a"} THEN i + 3 ELSE i + 2
    ELSE 0

\* ( \d{1,3}| un[oa]?) at position i: the end of the match, 0 for none
FractionEnd(t, i) ==
    IF At(t, i) # " " THEN 0
    ELSE IF DigitRun(t, i + 1) > 0
         THEN i + 1 + (IF DigitRun(t, i + 1) > 3 THEN 3 ELSE DigitRun(t, i + 1))
    ELSE IF StartsWithAt(t, i + 1, <<"u","n">>)
         THEN IF At(t, i + 3) \in {"o", "a"} THEN i + 4 ELSE i + 3
    ELSE 0

\* self.re_ptrn matched at position i.  Groups 3, 4 and 5 are optional and
\* nothing follows them, so each takes its first alternative that matches.
CurrencyMatchAt(t, i) ==
    LET e1 == AmountEnd(t, i)
        e2 == IF e1 # 0 /\ At(t, e1) = " "
              THEN FirstAltEnd(t, e1 + 1, curr_whole) ELSE 0
        c3 == FirstAltEnd(t, e2, CONJ_ALT)
        e3 == IF c3 # 0 THEN c3 ELSE e2
        f4 == FractionEnd(t, e3)
        e4 == IF f4 # 0 THEN f4 ELSE e3
        u5 == FirstAltEnd(t, e4, curr_fraction)
        e5 == IF u5 # 0 THEN u5 ELSE e4
    IN  IF WordBoundaryAt(t, i) /\ e1 # 0 /\ e2 # 0
        THEN [start |-> i, end |-> e5,
              g1 |-> SubSeq(t, i, e1 - 1),
              g2 |-> SubSeq(t, e1 + 1, e2 - 1),
              g4 |-> SubSeq(t, e3, e4 - 1)]
        ELSE NoMatch

\* CurrencyFormatter.re_sub; group 4 starts with the space strip() removes
re_sub(match) ==
    LET whole == IF match.g1 \in {<<"u","n">>, <<"u","n","o">>, <<"u","n","a">>}
                 THEN <<"1">> ELSE match.g1
        fract == IF match.g4 # <<>> THEN Tail(match.g4) ELSE <<"0","0">>
        curr == IF StartsWith(match.g2, <<"e","u">>) THEN <<"€">> ELSE <<"$">>
    IN  curr \o whole \o <<".">> \o ZFill2(fract)

\* x = re.sub(self.re_ptrn, self.re_sub, text)
CurrencySubstituted(t) ==
    LET ms == FindIter([i \in 1..Len(t) |-> CurrencyMatchAt(t, i)], t)
    IN  Replace(t, ms, [k \in DOMAIN ms |-> re_sub(ms[k])])

\* CurrencyFormatter.format_currency: x is computed and printed, text returned
format_currency(t) ==
    LET x == CurrencySubstituted(t)
    IN  t

-----------------------------------------------------------------------------
(* PostProcessorES.format_date *)

MONTHS ==
    << <<"e","n","e","r","o">>,
       <<"f","e","b","r","e","r","o">>,
       <<"m","a","r","z","o">>,
       <<"a","b","r","i","l">>,
       <<"m","a","y","o">>,
       <<"j","u","n","i","o">>,
       <<"j","u","l","i","o">>,
       <<"a","g","o","s","t","o">>,
       <<"s","e","p","t","i","e","m","b","r","e">>,
       <<"o","c","t","u","b","r","e">>,
       <<"n","o","v","i","e","m","b","r","e">>,
       <<"d","i","c","i","e","m","b","r","e">> >>

NonZeroDigits == Digits \ {"0"}

\* Each piece of a pattern that can match in more than one way gives the
\* ends of its matches at position i in the order the regex engine tries
\* them; the match of the whole pattern is the first combination to succeed.

\* (0?[1-9]|[12]\d|30|31)
DayEnds(t, i) ==
    (IF At(t, i) = "0" /\ At(t, i + 1) \in NonZeroDigits THEN <<i + 2>> ELSE <<>>)
    \o (IF At(t, i) \in NonZeroDigits THEN <<i + 1>> ELSE <<>>)
    \o (IF At(t, i) \in {"1", "2"} /\ At(t, i + 1) \in Digits
        THEN <<i + 2>> ELSE <<>>)
    \o (IF StartsWithAt(t, i, <<"3","0">>) THEN <<i + 2>> ELSE <<>>)
    \o (IF StartsWithAt(t, i, <<"3","1">>) THEN <<i + 2>> ELSE <<>>)

\* (0?[1-9]|10|11|12)
MonthNumberEnds(t, i) ==
    (IF At(t, i) = "0" /\ At(t, i + 1) \in NonZeroDigits THEN <<i + 2>> ELSE <<>>)
    \o (IF At(t, i) \in NonZeroDigits THEN <<i + 1>> ELSE <<>>)
    \o (IF At(t, i) = "1" /\ At(t, i + 1) \in {"0", "1", "2"}
        THEN <<i + 2>> ELSE <<>>)

\* ( del?)?
LinkEnds(t, i) ==
    (IF StartsWithAt(t, i, <<" ","d","e","l">>) THEN <<i + 4>> ELSE <<>>)
    \o (IF StartsWithAt(t, i, <<" ","d","e">>) THEN <<i + 3>> ELSE <<>>)
    \o <<i>>

\* \s+, longest first
SpacesEnds(t, i) ==
    LET n == SpaceRun(t, i)
    IN  [k \in 1..n |-> i + n - k + 1]

\* (enero|febrero|...): [mo: the month's index in MONTHS, from 0; end]
MonthNameEnds(t, i) ==
    FlatMap([k \in DOMAIN MONTHS |->
                IF StartsWithAt(t, i, MONTHS[k])
                THEN <<[mo |-> k - 1, end |-> i + Len(MONTHS[k])]>>
                ELSE <<>>],
            [k \in DOMAIN MONTHS |-> k])

\* (19\d\d|20\d\d)\b
YearEnds(t, i) ==
    IF /\ \/ StartsWithAt(t, i, <<"1","9">>)
          \/ StartsWithAt(t, i, <<"2","0">>)
       /\ DigitsAt(t, i + 2, 2)
       /\ WordBoundaryAt(t, i + 4)
    THEN <<i + 4>> ELSE <<>>

\* NUMERIC_MONTH_DATE_REGEX matched at position i
MonthDateMatchAt(t, i) ==
    LET days == DayEnds(t, i)
        all ==
          IF ~WordBoundaryAt(t, i) THEN <<>>
          ELSE
          FlatMap([d \in Range(days) |->
          FlatMap([l1 \in Range(LinkEnds(t, d)) |->
          FlatMap([s1 \in Range(SpacesEnds(t, l1)) |->
          FlatMap([m \in Range(MonthNameEnds(t, s1)) |->
          FlatMap([l2 \in Range(LinkEnds(t, m.end)) |->
          FlatMap([s2 \in Range(SpacesEnds(t, l2)) |->
          FlatMap([y \in Range(YearEnds(t, s2)) |->
                    <<[start |-> i, end |-> y,
                       g1 |-> SubSeq(t, i, d - 1),
                       g3 |-> m.mo,
                       g5 |-> SubSeq(t, s2, y - 1)]>>],
                  YearEnds(t, s2))],
                  SpacesEnds(t, l2))],
                  LinkEnds(t, m.end))],
                  MonthNameEnds(t, s1))],
                  SpacesEnds(t, l1))],
                  LinkEnds(t, d))],
                  days)
    IN  IF all = <<>> THEN NoMatch ELSE all[1]

\* NUMERIC_DATE_REGEX matched at position i
NumericDateMatchAt(t, i) ==
    LET months == MonthNumberEnds(t, i)
        daysAfter(m) == IF At(t, m) = " " THEN DayEnds(t, m + 1) ELSE <<>>
        all ==
          IF ~WordBoundaryAt(t, i) THEN <<>>
          ELSE
          FlatMap([m \in Range(months) |->
          FlatMap([d \in Range(daysAfter(m)) |->
          FlatMap([y \in Range(YearEnds(t, d)) |->
                    <<[start |-> i, end |-> y,
                       g1 |-> SubSeq(t, i, m - 1),
                       g2 |-> SubSeq(t, m + 1, d - 1),
                       g3 |-> SubSeq(t, d, y - 1)]>>],
                  YearEnds(t, d))],
                  daysAfter(m))],
                  months)
    IN  IF all = <<>> THEN NoMatch ELSE all[1]

\* the month's number taken as its index in MONTHS, without the + 1
MonthNumberFromZero(index) == index

\* mo = self.MONTHS.index(...) + 1
MonthNumber(index) == index + 1

\* PostProcessorES.re_sub_month
re_sub_month(match) ==
    match.g1 \o <<"/">> \o Str(MonthNumber(match.g3)) \o <<"/">> \o match.g5

\* the template r"\1 \3 \5"
MonthNameTemplate(match) ==
    match.g1 \o SP \o MONTHS[match.g3 + 1] \o SP \o match.g5

\* the template r"\1/\2/\3"
NumericDateTemplate(match) ==
    match.g1 \o <<"/">> \o match.g2 \o <<"/">> \o match.g3

format_date(t, month_name) ==
    LET ms == FindIter([i \in 1..Len(t) |-> MonthDateMatchAt(t, i)], t)
        t1 == IF month_name
              THEN Replace(t, ms, [k \in DOMAIN ms |-> MonthNameTemplate(ms[k])])
              ELSE Replace(t, ms, [k \in DOMAIN ms |-> re_sub_month(ms[k])])
        ns == FindIter([i \in 1..Len(t1) |-> NumericDateMatchAt(t1, i)], t1)
    IN  Replace(t1, ns, [k \in DOMAIN ns |-> NumericDateTemplate(ns[k])])

-----------------------------------------------------------------------------
(* PostProcessorES.format_time *)

\* what a call ends with: a returned value, or an exception raised
Returned(v) == [raised |-> "", value |-> v]

Raised(e) == [raised |-> e, value |-> <<>>]

\* (2[0-4]|[01]?\d) at position i: the end of the match, 0 for none.  The
\* group after it is optional, so the first alternative to match stands.
HourEnd(t, i) ==
    IF At(t, i) = "2" /\ At(t, i + 1) \in {"0","1","2","3","4"} THEN i + 2
    ELSE IF At(t, i) \in {"0", "1"} /\ At(t, i + 1) \in Digits THEN i + 2
    ELSE IF At(t, i) \in Digits THEN i + 1
    ELSE 0

\* ([0-5]?\d|60) at position i: the end of the match, 0 for none; [0-5]?\d
\* matches wherever 60 would
MinuteEnd(t, i) ==
    IF At(t, i) \in {"0","1","2","3","4","5"} /\ At(t, i + 1) \in Digits
    THEN i + 2
    ELSE IF At(t, i) \in Digits THEN i + 1
    ELSE 0

\* TIME_REGEX matched at position i; g4 is <<>> for a group that took no part
TimeMatchAt(t, i) ==
    LET e1 == FirstAltEnd(t, i, << [lit |-> <<"s","o","n"," ","l","a","s">>,
                                    opts |-> <<>>],
                                   [lit |-> <<"e","s"," ","l","a">>,
                                    opts |-> <<>>] >>)
        \* \s+ is followed by a digit: only its longest match can go on
        h == e1 + SpaceRun(t, e1)
        e2 == IF e1 # 0 /\ h > e1 THEN HourEnd(t, h) ELSE 0
        e4 == IF e2 # 0 /\ StartsWithAt(t, e2, <<" ","y"," ">>)
              THEN MinuteEnd(t, e2 + 3) ELSE 0
    IN  IF WordBoundaryAt(t, i) /\ e2 # 0
        THEN [start |-> i, end |-> IF e4 # 0 THEN e4 ELSE e2,
              g1 |-> SubSeq(t, i, e1 - 1),
              g2 |-> SubSeq(t, h, e2 - 1),
              g4 |-> IF e4 # 0 THEN SubSeq(t, e2 + 3, e4 - 1) ELSE <<>>]
        ELSE NoMatch

\* PostProcessorES.re_sub_time, for a match whose group 4 took part
re_sub_time(match) ==
    match.g1 \o SP \o match.g2 \o <<":">> \o ZFill2(match.g4)

\* PostProcessorES.format_time: re_sub_time is called for each match in
\* turn; mn is None when group 4 took no part, and mn.zfill raises
format_time(t) ==
    LET ms == FindIter([i \in 1..Len(t) |-> TimeMatchAt(t, i)], t)
    IN  IF \E k \in DOMAIN ms : ms[k].g4 = <<>>
        THEN Raised("AttributeError")
        ELSE Returned(Replace(t, ms, [k \in DOMAIN ms |-> re_sub_time(ms[k])]))

-----------------------------------------------------------------------------
(* Inputs *)

\* the most fragments glued into one token
MaxParts == 3

\* fragments the tokens given to split_number_word are glued from: number
\* words (some a prefix of a longer one), ordinal endings, a character of
\* no vocabulary word, and a space
Fragments ==
    { <<"t","w","e","e">>, <<"t","w","i","n","t","i","g">>,
      <<"t","w","e","e","ë","n","t","w","i","n","t","i","g">>,
      <<"a","c","h","t">>, <<"t","i","e","n">>,
      <<"h","o","n","d","e","r","d">>, <<"e","e","n">>,
      <<"s","t","e">>, <<"s","t","e","n">>, <<"x">>, <<" ">> }

SplitInputs ==
    {Join(ps) : ps \in UNION {[1..n -> Fragments] : n \in 0..MaxParts}}

\* the most number words glued into the stem of a compound ordinal
MaxStemWords == 2

\* the number words compound stems are glued from
StemWords ==
    { <<"t","w","e","e">>, <<"h","o","n","d","e","r","d">>,
      <<"d","u","i","z","e","n","d">>, <<"a","c","h","t">>,
      <<"t","i","e","n">>, <<"z","e","v","e","n">>,
      <<"z","e","v","e","n","t","i","g">>, <<"e","e","n">>,
      <<"e","e","n","e","n","t","w","i","n","t","i","g">>,
      <<"t","w","e","e","ë","n","t","w","i","n","t","i","g">>,
      <<"z","e","s">>, NUL }

\* the ordinal endings ord2card strips: ste, ster, stes, sten
OrdinalEndings ==
    { <<"s","t","e">>, <<"s","t","e","r">>, <<"s","t","e","s">>,
      <<"s","t","e","n">> }

\* the cardinal words whose ordinal the class body sets one by one
FixedCardinals ==
    { NUL, <<"é","é","n">>, <<"d","r","i","e">>, <<"a","c","h","t">> }

\* words given to ord2card: regular ordinals (a stem of number words and an
\* ending), the irregular ordinals, and words that are no ordinals
OrdInputs ==
    LET stems == {<<w>> : w \in NUMBER_DICT_NL}
                 \cup UNION {[1..n -> StemWords] : n \in 2..MaxStemWords}
    IN  {[kind |-> "regular", parts |-> ps, word |-> Join(ps) \o e] :
            ps \in stems, e \in OrdinalEndings}
        \cup {[kind |-> "fixed", parts |-> <<c>>, word |-> ORDINALS_FIXED_NL[c]] :
                c \in FixedCardinals}
        \cup {[kind |-> "other", parts |-> <<>>, word |-> w] :
                w \in { <<"e","l","f">>, <<"t","w","i","n","t","i","g">>,
                        <<"x","x","s","t","e">>,
                        <<"t","i","e","n","d","e">>,
                        <<"t","w","e","e","x","s","t","e">> }}

\* the most tokens in a stream given to merge_decimals
MaxTokens == 3

\* the tokens the streams are made of: decimals, short and long groups of
\* digits, a word
MergeTokens ==
    { <<"3",".","1">>, <<"1",".","5">>, <<"3",".","1","4">>,
      <<"2">>, <<"3">>, <<"2","3">>, <<"o","k">> }

\* DecimalMerger(decimal_sym, max_decimal, max_group): the defaults (".", 40,
\* 2) and smaller limits
MergeConfigs ==
    [decimal_sym : {"."}, max_decimal : {2, 4, 40}, max_group : {1, 2}]

MergeInputs ==
    [tokens : UNION {[1..n -> MergeTokens] : n \in 0..MaxTokens},
     cfg : MergeConfigs]

\* the text of a currency phrase: text before, amount, currency word,
\* conjunction, fractional amount, fraction-unit word, text after
CurrencyText(a) ==
    a.before \o a.amount \o SP \o a.currency \o a.conj \o a.fraction
        \o a.unit \o a.after

CurrencyInputs ==
    [before : { <<>>, <<"h","a","y"," ">> },
     amount : { <<"3">>, <<"1","2">>, <<"u","n">>, <<"u","n","a">> },
     currency : { <<"e","u","r","o","s">>, <<"e","u","r","o">>,
                  <<"d","o","l","a","r","e","s">>, <<"d","ó","l","a","r">>,
                  <<"d","o","l","l","a","r","s">>, <<"p","e","s","o","s">> },
     conj : { <<>>, <<" ","c","o","n">>, <<" ","y"," ","c","o","n">>,
              <<" ","y">> },
     fraction : { <<>>, <<" ","5","0">>, <<" ","5">>, <<" ","1","2","5">> },
     unit : { <<>>, <<" ","c","é","n","t","i","m","o","s">>,
              <<" ","c","e","n","t","a","v","o">> },
     after : { <<>>, <<" ","h","o","y">> }]

FIRST_YEAR == 1900

LAST_YEAR == 2050

\* the days of a month of the proleptic Gregorian calendar, as datetime.date
DaysInMonth(ye, mo) ==
    IF mo = 2
    THEN IF (ye % 4 = 0 /\ ye % 100 # 0) \/ ye % 400 = 0 THEN 29 ELSE 28
    ELSE IF mo \in {4, 6, 9, 11} THEN 30
    ELSE 31

\* the sentence test_dates builds: f"Hoy es el {da} de {mo_name} {co} {ye}."
DateSentence(a) ==
    <<"H","o","y"," ","e","s"," ","e","l"," ">> \o Str(a.da)
        \o <<" ","d","e"," ">> \o MONTHS[a.mo] \o SP \o a.co \o SP
        \o Str(a.ye) \o <<".">>

\* a purely numeric date: month, a space, day and year run together
NumericDateSentence(a) ==
    <<"e","l"," ">> \o Str(a.mo) \o SP \o Str(a.da) \o Str(a.ye) \o <<".">>

DateText(a) ==
    IF a.kind = "named" THEN DateSentence(a) ELSE NumericDateSentence(a)

\* every date from FIRST_YEAR-01-01 to LAST_YEAR-01-01 with either linking
\* word, as test_dates walks them; some of them with month_name=True, and
\* some purely numeric dates
DateInputs ==
    {a \in [kind : {"named"}, da : 1..31, mo : 1..12,
            ye : FIRST_YEAR..LAST_YEAR,
            co : { <<"d","e">>, <<"d","e","l">> }, month_name : {FALSE}] :
        /\ a.da <= DaysInMonth(a.ye, a.mo)
        /\ a.ye < LAST_YEAR \/ (a.mo = 1 /\ a.da = 1)}
    \cup
    {a \in [kind : {"named"}, da : 1..31, mo : 1..12, ye : {1999},
            co : { <<"d","e">>, <<"d","e","l">> }, month_name : {TRUE}] :
        a.da <= DaysInMonth(a.ye, a.mo)}
    \cup
    {a \in [kind : {"numeric"}, da : 1..31, mo : 1..12, ye : {1999, 2021},
            co : { <<>> }, month_name : {FALSE}] :
        a.da <= DaysInMonth(a.ye, a.mo)}

\* the sentence test_times builds, f"Hey {co} {hr} y {mn}.", and the same
\* without the minutes clause
TimeSentence(a) ==
    <<"H","e","y"," ">> \o a.co \o SP \o Str(a.hr)
        \o (IF a.with_minutes THEN <<" ","y"," ">> \o Str(a.mn) ELSE <<>>)
        \o <<".">>

TimeInputs ==
    {a \in [co : { <<"s","o","n"," ","l","a","s">>, <<"e","s"," ","l","a">> },
            hr : 0..24, mn : 0..59, with_minutes : BOOLEAN] :
        a.with_minutes \/ a.mn = 0}

-----------------------------------------------------------------------------
(* split_number_word, one iteration of its loop at a time *)

IdleSeg ==
    /\ word = <<>> /\ text = <<>> /\ invalid_word = <<>>
    /\ result = <<>> /\ iters = 0

IdleMerge ==
    /\ idx = 0 /\ out_tokens = <<>> /\ in_decimal = FALSE /\ decimal = <<>>

InitSplit ==
    /\ pc = "split"
    /\ word \in SplitInputs
    /\ text = word
    /\ invalid_word = <<>>
    /\ result = <<>>
    /\ iters = 0
    /\ arg = <<>>
    /\ ret = <<>>
    /\ IdleMerge

\* while len(text) > 0: one pass through the loop body
SplitLoop ==
    /\ pc = "split"
    /\ Len(text) > 0
    /\ LET s == SplitIter(text, invalid_word, result)
       IN  /\ text' = s.text
           /\ invalid_word' = s.invalid_word
           /\ result' = s.result
    /\ iters' = iters + 1
    /\ UNCHANGED <<pc, word, arg, ret, mergeVars>>

\* the loop's exit: the last buffered characters are flushed, result returned
SplitReturn ==
    /\ pc = "split"
    /\ Len(text) = 0
    /\ result' = Flush(result, invalid_word)
    /\ pc' = "done"
    /\ UNCHANGED <<word, text, invalid_word, iters, arg, ret, mergeVars>>

NextSplit == SplitLoop \/ SplitReturn

SpecSplit == InitSplit /\ [][NextSplit]_vars

-----------------------------------------------------------------------------
(* ord2card, one call *)

InitOrd ==
    /\ pc = "call"
    /\ arg \in OrdInputs
    /\ ret = None
    /\ IdleSeg
    /\ IdleMerge

OrdCall ==
    /\ pc = "call"
    /\ ret' = ord2card(arg.word)
    /\ pc' = "done"
    /\ UNCHANGED <<arg, segVars, mergeVars>>

NextOrd == OrdCall

SpecOrd == InitOrd /\ [][NextOrd]_vars

-----------------------------------------------------------------------------
(* merge_decimals, one token at a time, and a second pass over its output *)

InitMerge ==
    /\ pc = "merge"
    /\ arg \in MergeInputs
    /\ idx = 1
    /\ out_tokens = <<>>
    /\ in_decimal = FALSE
    /\ decimal = <<>>
    /\ ret = <<>>
    /\ IdleSeg

\* for token in tokens: one pass through the loop body
MergeToken ==
    /\ pc = "merge"
    /\ idx <= Len(arg.tokens)
    /\ LET s == MergeStep(arg.tokens[idx], arg.cfg, out_tokens, in_decimal,
                          decimal)
       IN  /\ out_tokens' = s.out_tokens
           /\ in_decimal' = s.in_decimal
           /\ decimal' = s.decimal
    /\ idx' = idx + 1
    /\ UNCHANGED <<pc, arg, ret, segVars>>

\* the loop's exit: a decimal still collected is appended, out_tokens returned
MergeReturn ==
    /\ pc = "merge"
    /\ idx > Len(arg.tokens)
    /\ out_tokens' = MergeEnd(out_tokens, in_decimal, decimal)
    /\ pc' = "merged"
    /\ UNCHANGED <<idx, in_decimal, decimal, arg, ret, segVars>>

\* the merged stream is merged again, by the same merger
Remerge ==
    /\ pc = "merged"
    /\ ret' = merge_decimals(out_tokens, arg.cfg)
    /\ pc' = "done"
    /\ UNCHANGED <<arg, mergeVars, segVars>>

NextMerge == MergeToken \/ MergeReturn \/ Remerge

SpecMerge == InitMerge /\ [][NextMerge]_vars

-----------------------------------------------------------------------------
(* format_currency, format_date, format_time: one call each *)

InitCurrency ==
    /\ pc = "call"
    /\ arg \in CurrencyInputs
    /\ ret = <<>>
    /\ IdleSeg
    /\ IdleMerge

CurrencyCall ==
    /\ pc = "call"
    /\ ret' = format_currency(CurrencyText(arg))
    /\ pc' = "done"
    /\ UNCHANGED <<arg, segVars, mergeVars>>

NextCurrency == CurrencyCall

SpecCurrency == InitCurrency /\ [][NextCurrency]_vars

InitDate ==
    /\ pc = "call"
    /\ arg \in DateInputs
    /\ ret = <<>>
    /\ IdleSeg
    /\ IdleMerge

DateCall ==
    /\ pc = "call"
    /\ ret' = format_date(DateText(arg), arg.month_name)
    /\ pc' = "done"
    /\ UNCHANGED <<arg, segVars, mergeVars>>

NextDate == DateCall

SpecDate == InitDate /\ [][NextDate]_vars

InitTime ==
    /\ pc = "call"
    /\ arg \in TimeInputs
    /\ ret = <<>>
    /\ IdleSeg
    /\ IdleMerge

TimeCall ==
    /\ pc = "call"
    /\ ret' = format_time(TimeSentence(arg))
    /\ pc' = "done"
    /\ UNCHANGED <<arg, segVars, mergeVars>>

NextTime == TimeCall

SpecTime == InitTime /\ [][NextTime]_vars

-----------------------------------------------------------------------------
(* Properties of split_number_word, under SpecSplit *)

\* s without its spaces
RemoveSpaces(s) == SelectSeq(s, LAMBDA c : c # " ")

\* the vocabulary split_number_word matches against: number words, "en", "nul"
Vocabulary == Range(<<AND, NUL>> \o NUMBERS)

HasVocabPrefix(t) == \E v \in Vocabulary : StartsWith(t, v)

LongestVocabPrefix(t) ==
    CHOOSE v \in Vocabulary :
        /\ StartsWith(t, v)
        /\ \A u \in Vocabulary : StartsWith(t, u) => Len(u) <= Len(v)

\* C1: segmentation is lossless: the string split_number_word returns, with
\* the separating spaces removed, is the token it was given, character for
\* character (ordinal endings and buffered unmatched characters included).
C1_SegmentationLossless ==
    pc = "done" => RemoveSpaces(result) = RemoveSpaces(word)

\* C9: greedy longest match: in every iteration that starts where some
\* vocabulary entry is a prefix of the remaining text, the sub-word emitted
\* is the longest such entry, and exactly that entry is cut off the text.
C9_GreedyLongestMatch ==
    [][(pc = "split" /\ Len(text) > 0 /\ HasVocabPrefix(text)) =>
          LET lw == LongestVocabPrefix(text)
          IN  /\ text' = Drop(text, Len(lw))
              /\ result' = Flush(result, invalid_word) \o lw \o SP]_vars

\* C9's case: the fused tens-unit word "tweeëntwintig" came out as one token
C9_Witness ==
    /\ pc = "done"
    /\ word = <<"t","w","e","e","ë","n","t","w","i","n","t","i","g">>
    /\ result = word \o SP

\* C10: every iteration of the loop strictly shortens the remaining text, so
\* the loop has run at most len(token) times when it ends.
C10_LoopShortensText ==
    [][iters' # iters =>
          /\ Len(text') < Len(text)
          /\ iters' <= Len(word)]_vars

\* C10's case: a run whose three iterations cut off a vocabulary word, then
\* one character, then an ordinal ending
C10_Witness ==
    /\ pc = "done"
    /\ word = <<"t","w","i","n","t","i","g","x","s","t","e">>
    /\ iters = 3

-----------------------------------------------------------------------------
(* Properties of ord2card, under SpecOrd *)

\* C7: regular ordinal stripping: for a stem made of lexicon words (one word,
\* or several glued together) and an ending among ste, ster, stes, sten,
\* ord2card(stem + ending) returns the stem.
C7_RegularOrdinalStripped ==
    (pc = "done" /\ arg.kind = "regular") => ret = Some(Join(arg.parts))

\* C7's case: the compound ordinal "tweehonderdste" gave back "tweehonderd",
\* re-joined from the parts the segmenter split it into
C7_Witness ==
    /\ pc = "done"
    /\ arg.kind = "regular"
    /\ arg.parts = << <<"t","w","e","e">>, <<"h","o","n","d","e","r","d">> >>
    /\ arg.word = Join(arg.parts) \o <<"s","t","e">>
    /\ ret = Some(Join(arg.parts))

\* C8: irregular ordinals: for each irregular ordinal the class declares
\* (nulde, eerste, derde, achtste), ord2card returns its cardinal word
\* (nul, één, drie, acht).
C8_IrregularOrdinals ==
    (pc = "done" /\ arg.kind = "fixed") => ret = Some(arg.parts[1])

-----------------------------------------------------------------------------
(* Properties of merge_decimals, under SpecMerge *)

\* an all-digit token of 1 to max_group digits
IsShortDigitGroup(token, max_group) ==
    Len(token) \in 1..max_group /\ DigitsAt(token, 1, Len(token))

\* a token of the shape digits, separator, 1 to max_group digits
IsDecimalToken(token, sym, max_group) ==
    \E n \in 1..Len(token), m \in 1..max_group :
        /\ Len(token) = n + 1 + m
        /\ DigitsAt(token, 1, n)
        /\ token[n + 1] = sym
        /\ DigitsAt(token, n + 2, m)

\* the number of characters after the first separator of a decimal
FractionLength(d, sym) ==
    Len(d) - (CHOOSE i \in 1..Len(d) :
                  d[i] = sym /\ \A j \in 1..(i - 1) : d[j] # sym)

\* C2: the merger is idempotent: merging the stream merge_decimals returned,
\* with the same configuration, gives that stream again.
C2_MergeIdempotent == pc = "done" => ret = out_tokens

\* C6: the merge rule: while a decimal is being collected, a token that is
\* not itself a decimal is appended to it exactly when it is an all-digit
\* token of at most max_group digits and the fraction stays within
\* max_decimal digits; otherwise the decimal is flushed and the token is
\* emitted as its own output token.  And ['3.1', '2', '3'] with max_decimal
\* 4 and max_group 2 is merged into ['3.123'].
C6_MergeRule ==
    [][/\ (/\ pc = "merge"
           /\ idx <= Len(arg.tokens)
           /\ in_decimal
           /\ ~IsDecimalToken(arg.tokens[idx], arg.cfg.decimal_sym,
                              arg.cfg.max_group))
          => LET token == arg.tokens[idx]
             IN  IF /\ IsShortDigitGroup(token, arg.cfg.max_group)
                    /\ Len(token) + FractionLength(decimal, arg.cfg.decimal_sym)
                           <= arg.cfg.max_decimal
                 THEN /\ decimal' = decimal \o token
                      /\ out_tokens' = out_tokens
                      /\ in_decimal'
                 ELSE /\ out_tokens' = out_tokens \o <<decimal, token>>
                      /\ ~in_decimal'
       /\ (/\ pc' = "merged"
           /\ arg.tokens = << <<"3",".","1">>, <<"2">>, <<"3">> >>
           /\ arg.cfg = [decimal_sym |-> ".", max_decimal |-> 4, max_group |-> 2])
          => out_tokens' = << <<"3",".","1","2","3">> >>]_vars

-----------------------------------------------------------------------------
(* Properties of format_currency, under SpecCurrency *)

\* the text a currency phrase is to be rewritten to: the symbol, the whole
\* amount, a point and the fraction padded to two digits, the surrounding
\* text unchanged; a phrase without a currency word stays as it is
ExpectedCurrency(a) ==
    IF ~StartsWith(a.currency, <<"e","u","r","o">>)
       /\ ~StartsWith(a.currency, <<"d","o">>)
       /\ ~StartsWith(a.currency, <<"d","ó">>)
    THEN CurrencyText(a)
    ELSE LET symbol == IF StartsWith(a.currency, <<"e","u","r","o">>)
                       THEN <<"€">> ELSE <<"$">>
             whole == IF a.amount[1] \in Digits THEN a.amount ELSE <<"1">>
             digits == IF a.fraction = <<>> THEN <<>> ELSE Tail(a.fraction)
             padded == IF Len(digits) = 0 THEN <<"0","0">>
                       ELSE IF Len(digits) = 1 THEN <<"0">> \o digits
                       ELSE digits
         IN  a.before \o symbol \o whole \o <<".">> \o padded \o a.after

\* C3: format_currency returns the text with every currency phrase replaced
\* by <symbol><whole>.<fraction padded to 2 digits>; 3 euros and 50 céntimos
\* comes back as "€3.50".
C3_CurrencyFormatted == pc = "done" => ret = ExpectedCurrency(arg)

-----------------------------------------------------------------------------
(* Properties of format_date, under SpecDate *)

\* f"Hoy es el {da}/{mo}/{ye}."
ExpectedDate(a) ==
    <<"H","o","y"," ","e","s"," ","e","l"," ">> \o Str(a.da) \o <<"/">>
        \o Str(a.mo) \o <<"/">> \o Str(a.ye) \o <<".">>

\* C4: for every date from 1900-01-01 to 2050-01-01 and either linking word,
\* format_date("Hoy es el d de M c y.") with month_name=False returns
\* "Hoy es el d/m/y.", day and month number unpadded.
C4_DateFormatted ==
    (pc = "done" /\ arg.kind = "named" /\ ~arg.month_name)
        => ret = ExpectedDate(arg)

\* C4's case: "Hoy es el 13 de octubre del 1999." came back as
\* "Hoy es el 13/10/1999."
C4_Witness ==
    /\ pc = "done"
    /\ arg = [kind |-> "named", da |-> 13, mo |-> 10, ye |-> 1999,
              co |-> <<"d","e","l">>, month_name |-> FALSE]
    /\ ret = <<"H","o","y"," ","e","s"," ","e","l"," ",
               "1","3","/","1","0","/","1","9","9","9",".">>

-----------------------------------------------------------------------------
(* Properties of format_time, under SpecTime *)

\* f"Hey {co} {hr}:{mn:02}.", the minutes 00 when the sentence names none
ExpectedTime(a) ==
    <<"H","e","y"," ">> \o a.co \o SP \o Str(a.hr) \o <<":">>
        \o (IF ~a.with_minutes THEN <<"0","0">>
            ELSE IF a.mn < 10 THEN <<"0">> \o Str(a.mn)
            ELSE Str(a.mn))
        \o <<".">>

\* C5: format_time never fails: it returns a string, in which the span
\* "son las" / "es la" and an hour 0-24 is rewritten to "phrase H:MM", the
\* minutes padded to two digits, also when the " y <minutes>" clause is
\* absent.
C5_TimeFormatted == pc = "done" => ret = Returned(ExpectedTime(arg))

\* with the minutes clause present, format_time returns the rewritten text
TimeFormattedWithMinutes ==
    (pc = "done" /\ arg.with_minutes) => ret = Returned(ExpectedTime(arg))

\* re.sub turns every currency phrase into the expected text
CurrencySubMatchesExpected ==
    pc = "done" => CurrencySubstituted(CurrencyText(arg)) = ExpectedCurrency(arg)

====
